---------------------------- MODULE Spec2Model ----------------------------
(***************************************************************************)
(* A model of scanorama.py: the alignment table (fill_table,               *)
(* find_alignments_table, find_alignments), the mutual matcher (mnn), the  *)
(* panorama graph (connect), the batched bias (batch_bias) and the         *)
(* assembler (assemble).                                                   *)
(*                                                                         *)
(* Dataset indices are 0-based as in the source.  A coordinate matrix is   *)
(* a record [rows, ver]: rows is shape[0], ver counts the times the matrix *)
(* has been overwritten with `curr_ds + bias`.  The nearest-neighbour      *)
(* libraries are external: a search returns any set in which every query   *)
(* row has knn distinct reference rows.                                    *)
(***************************************************************************)
EXTENDS Integers, Sequences, FiniteSets, Bags, TLC

VARIABLES
    pc,             \* position of the running function
    n,              \* len(datasets)
    datasets,       \* datasets[i]: the coordinate matrix of dataset i
    expr_given,     \* expr_datasets is a (non-empty) list, not None
    expr_datasets,  \* expr_datasets[i]: the full-feature matrix of dataset i
    realign,        \* assemble's realign flag
    matches,        \* matches[<<i, j>>], i < j: mutual match set
    taken,          \* the edges of `alignments` the loop has consumed so far
    cur,            \* the edge of the last loop iteration and what it did
    call,           \* the arguments of the last transform() call
    panoramas,      \* list of lists of dataset indices
    connected,      \* connect's set `connected`
    ds_assembled,   \* assemble's visit counters (a dict)
    k,              \* index of connect's closing loop over range(len(datasets))
    failed,         \* an assert of the source has failed
    searched,       \* find_alignments has been called
    table,          \* table[<<i, j>>]: directional matches of i into j
    table1,         \* insertion-ordered dict of scores: sequence of [key, num, den]
    alignments,     \* find_alignments' returned edge list
    alpha,          \* threshold, a fraction <<num, den>>
    knn,            \* neighbours per query row
    match1,         \* mnn: first direction
    match2,         \* mnn: second direction
    mutual,         \* mnn: returned set
    curr_ds,        \* batch_bias: moving block (1-D points)
    match_ds,       \* batch_bias: matched moving points
    bias,           \* batch_bias: bias per matched point
    batch_size,     \* batch_bias: chunk size
    base,           \* batch_bias: loop variable
    avg_bias,       \* batch_bias: the array avg_bias, entries <<num, den>>
    denom,          \* batch_bias: denominator accumulator
    chunks          \* batch_bias: the batch_idx ranges used so far

asmVars   == <<n, datasets, expr_given, expr_datasets, realign, matches, taken,
               cur, call, panoramas, connected, ds_assembled, k, failed, searched>>
alignVars == <<table, table1, alignments, alpha, knn, match1, match2, mutual>>
biasVars  == <<curr_ds, match_ds, bias, batch_size, base, avg_bias, denom, chunks>>
vars      == <<pc, asmVars, alignVars, biasVars>>

---------------------------------------------------------------------------
(* Bounds of the model. *)
MaxConnect == 4
MaxDatasets == 4
MaxEdges == 4
AlignDatasets == 3
MaxKnn == 2
MaxCoord == 2
MaxMatch == 3
MaxBatch == 3
Underflow == 3
MaxPairMatches == 1
RemapEdges == 3

(* The visit cap of assemble: `ds_assembled[i] > 3 and ds_assembled[j] > 3`. *)
VisitCap == 3

---------------------------------------------------------------------------
(* Python list helpers. *)

Range(s) == { s[x] : x \in DOMAIN s }

\* list.remove(x): drop the first element equal (by value) to x
RemoveFirst(s, x) ==
    LET hit == { p \in DOMAIN s : s[p] = x }
        first == CHOOSE p \in hit : \A q \in hit : p <= q
    IN IF hit = {} THEN s
       ELSE [ p \in 1..(Len(s) - 1) |-> IF p < first THEN s[p] ELSE s[p + 1] ]

\* [ panoramas[p] for p in range(len(panoramas)) if i in panoramas[p] ],
\* kept as the positions p (1-based) so that in-place updates reach the list
PanoramasOf(ps, i) ==
    SelectSeq([ p \in 1..Len(ps) |-> p ], LAMBDA p : i \in Range(ps[p]))

Pairs(m) == { <<i, j>> \in (0..(m - 1)) \X (0..(m - 1)) : i < j }

\* shape[0] of dataset x in the model's inputs: 2, 1, 2, 1, ...
DsRows(x) == 2 - (x % 2)

NoEdge == [i |-> -1, j |-> -1, branch |-> "none"]
NoCall == [moving |-> <<>>, ref |-> <<>>, match |-> EmptyBag, expr |-> FALSE]

---------------------------------------------------------------------------
(* Idle values of the variables a specification does not use. *)

IdleAsm ==
    /\ n = 0 /\ datasets = <<>> /\ expr_given = FALSE /\ expr_datasets = <<>>
    /\ realign = FALSE /\ matches = <<>> /\ taken = {} /\ cur = NoEdge
    /\ call = NoCall /\ panoramas = <<>> /\ connected = {}
    /\ ds_assembled = <<>> /\ k = 0 /\ failed = FALSE /\ searched = FALSE

IdleAlign ==
    /\ table = <<>> /\ table1 = <<>> /\ alignments = <<>> /\ alpha = <<0, 1>>
    /\ knn = 0 /\ match1 = {} /\ match2 = {} /\ mutual = {}

IdleBias ==
    /\ curr_ds = <<>> /\ match_ds = <<>> /\ bias = <<>> /\ batch_size = 0
    /\ base = 0 /\ avg_bias = <<>> /\ denom = <<>> /\ chunks = <<>>

---------------------------------------------------------------------------
(* connect(): lines 399-439.  find_alignments returns each pair i < j at   *)
(* most once, in an order fixed by the scores; the loop never looks ahead, *)
(* so the list is revealed one edge at a time.                             *)

\* a merge that extends panoramas_i[0] and leaves panoramas_j[0] in the list
MergePanoramasKeep(ps, pi, pj) == [ps EXCEPT ![pi] = @ \o ps[pj]]

\* a merge that removes panoramas_j[0] without extending panoramas_i[0]
MergePanoramasDrop(ps, pi, pj) == RemoveFirst(ps, ps[pj])

\* lines 429-430: panoramas_i[0] += panoramas_j[0]; panoramas.remove(...),
\* with the two panoramas given by their positions
MergePanoramas(ps, pi, pj) ==
    RemoveFirst([ps EXCEPT ![pi] = @ \o ps[pj]], ps[pj])

\* the body of `for i, j in alignments` (lines 411-430)
ConnectBody(ps, i, j) ==
    LET panoramas_i == PanoramasOf(ps, i)
        panoramas_j == PanoramasOf(ps, j)
        fresh  == Len(panoramas_i) = 0 /\ Len(panoramas_j) = 0
        ps1    == IF fresh THEN Append(ps, <<i>>) ELSE ps
        pi1    == IF fresh THEN <<Len(ps1)>> ELSE panoramas_i
    IN IF Len(pi1) = 0
         THEN [ps1 EXCEPT ![panoramas_j[1]] = Append(@, i)]
       ELSE IF Len(panoramas_j) = 0
         THEN [ps1 EXCEPT ![pi1[1]] = Append(@, j)]
       ELSE IF ps1[pi1[1]] # ps1[panoramas_j[1]]
         THEN MergePanoramas(ps1, pi1[1], panoramas_j[1])
       ELSE ps1

\* the two asserts of lines 415 and 418
MembershipAsserts(ps, i, j) ==
    Len(PanoramasOf(ps, i)) <= 1 /\ Len(PanoramasOf(ps, j)) <= 1

InitConnect ==
    /\ pc = "connect"
    /\ n \in 1..MaxConnect
    /\ datasets = [ i \in 0..(n - 1) |-> [rows |-> DsRows(i), ver |-> 0] ]
    /\ expr_given = FALSE /\ expr_datasets = <<>> /\ realign = FALSE
    /\ matches = <<>> /\ taken = {} /\ cur = NoEdge /\ call = NoCall
    /\ panoramas = <<>> /\ connected = {} /\ ds_assembled = <<>>
    /\ k = 0 /\ failed = FALSE /\ searched = TRUE
    /\ IdleAlign /\ IdleBias

ConnectEdge(i, j) ==
    /\ pc = "connect"
    /\ <<i, j>> \in Pairs(n) \ taken
    /\ taken' = taken \cup {<<i, j>>}
    /\ cur' = [i |-> i, j |-> j, branch |-> "edge"]
    /\ IF MembershipAsserts(panoramas, i, j)
         THEN /\ panoramas' = ConnectBody(panoramas, i, j)
              /\ connected' = connected \cup {i, j}
              /\ UNCHANGED <<pc, failed>>
         ELSE /\ failed' = TRUE
              /\ pc' = "error"
              /\ UNCHANGED <<panoramas, connected>>
    /\ UNCHANGED <<n, datasets, expr_given, expr_datasets, realign, matches,
                   call, ds_assembled, k, searched, alignVars, biasVars>>

\* the edge list is exhausted
ConnectEdgesDone ==
    /\ pc = "connect"
    /\ pc' = "singletons"
    /\ k' = 0
    /\ UNCHANGED <<n, datasets, expr_given, expr_datasets, realign, matches,
                   taken, cur, call, panoramas, connected, ds_assembled,
                   failed, searched, alignVars, biasVars>>

\* one iteration of `for i in range(len(datasets))` (lines 435-437)
ConnectSingleton ==
    /\ pc = "singletons"
    /\ k < n
    /\ panoramas' = IF k \notin connected THEN Append(panoramas, <<k>>)
                    ELSE panoramas
    /\ k' = k + 1
    /\ UNCHANGED <<pc, n, datasets, expr_given, expr_datasets, realign, matches,
                   taken, cur, call, connected, ds_assembled, failed, searched,
                   alignVars, biasVars>>

ConnectReturn ==
    /\ pc = "singletons"
    /\ k = n
    /\ pc' = "done"
    /\ UNCHANGED <<asmVars, alignVars, biasVars>>

NextConnect ==
    \/ \E e \in Pairs(MaxConnect) : ConnectEdge(e[1], e[2])
    \/ ConnectEdgesDone
    \/ ConnectSingleton
    \/ ConnectReturn

SpecConnect == InitConnect /\ [][NextConnect]_vars

---------------------------------------------------------------------------
(* assemble(): lines 490-669.                                              *)

\* ds_assembled[x] += 1, creating the entry at 0 first (lines 510-515)
Visit(d, x) ==
    IF x \in DOMAIN d THEN [d EXCEPT ![x] = @ + 1] ELSE d @@ (x :> 1)

\* a cap that one endpoint alone can reach
OverCapEither(d, i, j) == d[i] > VisitCap \/ d[j] > VisitCap

\* the test of line 516
OverCap(d, i, j) == d[i] > VisitCap /\ d[j] > VisitCap

\* rows of the members that precede position q of a panorama
RECURSIVE Offset(_, _)
Offset(members, q) ==
    IF q <= 1 THEN 0
    ELSE Offset(members, q - 1) + datasets[members[q - 1]].rows

\* base_i of lines 601-604: rows of the members before x (all, without x)
RECURSIVE BaseOf(_, _, _)
BaseOf(members, x, q) ==
    IF q > Len(members) \/ members[q] = x THEN 0
    ELSE datasets[members[q]].rows + BaseOf(members, x, q + 1)

\* a remapping that reads the matches of (p, x) as if they were those of (x, p)
RECURSIVE MapMatchesUnswapped(_, _, _)
MapMatchesUnswapped(x, members, q) ==
    IF q > Len(members) THEN EmptyBag
    ELSE LET p == members[q]
             b0 == Offset(members, q)
             piece ==
               IF x < p /\ <<x, p>> \in DOMAIN matches
                 THEN { <<m[1], m[2] + b0>> : m \in matches[<<x, p>>] }
               ELSE IF x > p /\ <<p, x>> \in DOMAIN matches
                 THEN { <<m[1], m[2] + b0>> : m \in matches[<<p, x>>] }
               ELSE {}
         IN SetToBag(piece) (+) MapMatchesUnswapped(x, members, q + 1)

\* lines 538-545 (and 569-576): the matches of the unassigned dataset x with
\* every member p of the reference panorama, shifted by the running base
RECURSIVE MapMatches(_, _, _)
MapMatches(x, members, q) ==
    IF q > Len(members) THEN EmptyBag
    ELSE LET p == members[q]
             b0 == Offset(members, q)
             piece ==
               IF x < p /\ <<x, p>> \in DOMAIN matches
                 THEN { <<m[1], m[2] + b0>> : m \in matches[<<x, p>>] }
               ELSE IF x > p /\ <<p, x>> \in DOMAIN matches
                 THEN { <<m[2], m[1] + b0>> : m \in matches[<<p, x>>] }
               ELSE {}
         IN SetToBag(piece) (+) MapMatches(x, members, q + 1)

\* a first loop that takes the matches of j with every member of panorama i
RECURSIVE MergeMatchesIAll(_, _, _, _, _)
MergeMatchesIAll(i, j, members, base_j, q) ==
    IF q > Len(members) THEN EmptyBag
    ELSE LET p == members[q]
             b0 == Offset(members, q)
             piece ==
               IF j < p /\ <<j, p>> \in DOMAIN matches
                 THEN { <<m[2] + b0, m[1] + base_j>> : m \in matches[<<j, p>>] }
               ELSE IF j > p /\ <<p, j>> \in DOMAIN matches
                 THEN { <<m[1] + b0, m[2] + base_j>> : m \in matches[<<p, j>>] }
               ELSE {}
         IN SetToBag(piece) (+) MergeMatchesIAll(i, j, members, base_j, q + 1)

\* lines 612-620: the first loop of the merge branch, over panorama i
RECURSIVE MergeMatchesI(_, _, _, _, _)
MergeMatchesI(i, j, members, base_j, q) ==
    IF q > Len(members) THEN EmptyBag
    ELSE LET p == members[q]
             b0 == Offset(members, q)
             piece ==
               IF p = i /\ j < p /\ <<j, p>> \in DOMAIN matches
                 THEN { <<m[2] + b0, m[1] + base_j>> : m \in matches[<<j, p>>] }
               ELSE IF p = i /\ j > p /\ <<p, j>> \in DOMAIN matches
                 THEN { <<m[1] + b0, m[2] + base_j>> : m \in matches[<<p, j>>] }
               ELSE {}
         IN SetToBag(piece) (+) MergeMatchesI(i, j, members, base_j, q + 1)

\* lines 621-629: the second loop of the merge branch, over panorama j
RECURSIVE MergeMatchesJ(_, _, _, _, _)
MergeMatchesJ(i, j, members, base_i, q) ==
    IF q > Len(members) THEN EmptyBag
    ELSE LET p == members[q]
             b0 == Offset(members, q)
             piece ==
               IF p = j /\ i < p /\ <<i, p>> \in DOMAIN matches
                 THEN { <<m[1] + base_i, m[2] + b0>> : m \in matches[<<i, p>>] }
               ELSE IF p = j /\ i > p /\ <<p, i>> \in DOMAIN matches
                 THEN { <<m[2] + base_i, m[1] + b0>> : m \in matches[<<p, i>>] }
               ELSE {}
         IN SetToBag(piece) (+) MergeMatchesJ(i, j, members, base_i, q + 1)

\* a join that leaves panoramas_j[0] in the list
JoinPanoramasKeep(ps, pi, pj) ==
    IF ps[pi] # ps[pj] THEN [ps EXCEPT ![pi] = @ \o ps[pj]] ELSE ps

\* a join without the guard of line 661
JoinPanoramasAlways(ps, pi, pj) ==
    RemoveFirst([ps EXCEPT ![pi] = @ \o ps[pj]], ps[pj])

\* lines 661-663, with the two panoramas given by their positions
JoinPanoramas(ps, pi, pj) ==
    IF ps[pi] # ps[pj]
      THEN RemoveFirst([ps EXCEPT ![pi] = @ \o ps[pj]], ps[pj])
    ELSE ps

\* an early return that only fires on an empty list
IsSingleOff(m) == m = 0

\* line 493
IsSingle(m) == m = 1

\* a write-back that runs over every index up to the last dataset of xs
CorrectedUpTo(ds, xs) ==
    [ x \in DOMAIN ds |->
        IF \E y \in xs : x <= y THEN [ds[x] EXCEPT !.ver = @ + 1] ELSE ds[x] ]

\* datasets[x] = curr_ds + bias: the matrix of x is overwritten
Corrected(ds, xs) ==
    [ x \in DOMAIN ds |-> IF x \in xs THEN [ds[x] EXCEPT !.ver = @ + 1] ELSE ds[x] ]

\* a seed choice that prefers the dataset with fewer points
SeedOrderSmaller(i, j) ==
    IF datasets[i].rows > datasets[j].rows THEN <<j, i>> ELSE <<i, j>>

\* lines 527-529: with neither endpoint assigned the larger dataset seeds
SeedOrder(i, j) ==
    IF datasets[i].rows < datasets[j].rows THEN <<j, i>> ELSE <<i, j>>

\* the mutual matches find_alignments hands over: row a of i with row a of j
DsMatches(m) ==
    [ e \in Pairs(m) |->
        { <<a, a>> : a \in 0..((IF DsRows(e[1]) < DsRows(e[2])
                                THEN DsRows(e[1]) ELSE DsRows(e[2])) - 1) } ]

InitAssemble ==
    /\ pc = "assemble"
    /\ n \in 1..MaxDatasets
    /\ datasets = [ i \in 0..(n - 1) |-> [rows |-> DsRows(i), ver |-> 0] ]
    /\ expr_given \in BOOLEAN
    /\ expr_datasets = [ i \in 0..(n - 1) |-> [rows |-> DsRows(i), ver |-> 0] ]
    /\ realign \in BOOLEAN
    /\ matches = <<>> /\ taken = {} /\ cur = NoEdge /\ call = NoCall
    /\ panoramas = <<>> /\ connected = {} /\ ds_assembled = <<>>
    /\ k = 0 /\ failed = FALSE /\ searched = FALSE
    /\ IdleAlign /\ IdleBias

\* lines 493-494
AssembleSingle ==
    /\ pc = "assemble"
    /\ IsSingle(n)
    /\ pc' = "done"
    /\ UNCHANGED <<asmVars, alignVars, biasVars>>

\* lines 496-500
AssembleFind ==
    /\ pc = "assemble"
    /\ ~IsSingle(n)
    /\ searched' = TRUE
    /\ matches' = DsMatches(n)
    /\ ds_assembled' = <<>>
    /\ panoramas' = <<>>
    /\ pc' = "loop"
    /\ UNCHANGED <<n, datasets, expr_given, expr_datasets, realign, taken, cur,
                   call, connected, k, failed, alignVars, biasVars>>

\* one iteration of `for i, j in alignments` (lines 501-667)
AssembleEdge(i0, j0) ==
    /\ pc = "loop"
    /\ <<i0, j0>> \in Pairs(n) \ taken
    /\ taken' = taken \cup {<<i0, j0>>}
    /\ LET d1 == Visit(Visit(ds_assembled, i0), j0)
           panoramas_i == PanoramasOf(panoramas, i0)
           panoramas_j == PanoramasOf(panoramas, j0)
           fresh == Len(panoramas_i) = 0 /\ Len(panoramas_j) = 0
           ij  == IF fresh THEN SeedOrder(i0, j0) ELSE <<i0, j0>>
           i   == ij[1]
           j   == ij[2]
           ps1 == IF fresh THEN Append(panoramas, <<i>>) ELSE panoramas
           pi1 == IF fresh THEN <<Len(ps1)>> ELSE panoramas_i
       IN /\ ds_assembled' = d1
          /\ IF OverCap(d1, i0, j0)
               THEN /\ cur' = [i |-> i0, j |-> j0, branch |-> "skip"]
                    /\ UNCHANGED <<pc, datasets, expr_datasets, panoramas,
                                   call, failed>>
             ELSE IF ~MembershipAsserts(panoramas, i0, j0)
               THEN /\ cur' = [i |-> i0, j |-> j0, branch |-> "assert"]
                    /\ failed' = TRUE
                    /\ pc' = "error"
                    /\ UNCHANGED <<datasets, expr_datasets, panoramas, call>>
             ELSE IF Len(pi1) = 0
               THEN \* map dataset i to panorama j (lines 534-562)
                    LET ref == ps1[panoramas_j[1]]
                    IN /\ cur' = [i |-> i, j |-> j, branch |-> "map_i"]
                       /\ call' = [moving |-> <<i>>, ref |-> ref,
                                   match |-> MapMatches(i, ref, 1),
                                   expr |-> expr_given]
                       /\ datasets' = Corrected(datasets, {i})
                       /\ expr_datasets' = IF expr_given
                                             THEN Corrected(expr_datasets, {i})
                                           ELSE expr_datasets
                       /\ panoramas' = [ps1 EXCEPT ![panoramas_j[1]] = Append(@, i)]
                       /\ UNCHANGED <<pc, failed>>
             ELSE IF Len(panoramas_j) = 0
               THEN \* map dataset j to panorama i (lines 565-593)
                    LET ref == ps1[pi1[1]]
                    IN /\ cur' = [i |-> i, j |-> j,
                                  branch |-> IF fresh THEN "seed" ELSE "map_j"]
                       /\ call' = [moving |-> <<j>>, ref |-> ref,
                                   match |-> MapMatches(j, ref, 1),
                                   expr |-> expr_given]
                       /\ datasets' = Corrected(datasets, {j})
                       /\ expr_datasets' = IF expr_given
                                             THEN Corrected(expr_datasets, {j})
                                           ELSE expr_datasets
                       /\ panoramas' = [ps1 EXCEPT ![pi1[1]] = Append(@, j)]
                       /\ UNCHANGED <<pc, failed>>
             ELSE \* merge two panoramas together (lines 596-663)
                    LET mov == ps1[pi1[1]]
                        ref == ps1[panoramas_j[1]]
                        base_i == BaseOf(mov, i, 1)
                        base_j == BaseOf(ref, j, 1)
                        again == realign /\ expr_given
                    IN /\ cur' = [i |-> i, j |-> j,
                                  branch |-> IF mov # ref THEN "merge" ELSE "same"]
                       /\ call' = [moving |-> mov, ref |-> ref,
                                   match |-> MergeMatchesI(i, j, mov, base_j, 1)
                                             (+) MergeMatchesJ(i, j, ref, base_i, 1),
                                   expr |-> again]
                       /\ datasets' = Corrected(datasets, Range(mov))
                       /\ expr_datasets' = IF again
                                             THEN Corrected(expr_datasets, Range(mov))
                                           ELSE expr_datasets
                       /\ panoramas' = JoinPanoramas(ps1, pi1[1], panoramas_j[1])
                       /\ UNCHANGED <<pc, failed>>
    /\ UNCHANGED <<n, expr_given, realign, matches, connected, k, searched,
                   alignVars, biasVars>>

\* the edge list is exhausted: line 669.  The loop's locals i, j, match,
\* ds_ind, ref_ind and the iterator go out of scope.
AssembleReturn ==
    /\ pc = "loop"
    /\ pc' = "done"
    /\ cur' = NoEdge
    /\ call' = NoCall
    /\ UNCHANGED <<n, datasets, expr_given, expr_datasets, realign, matches,
                   taken, panoramas, connected, ds_assembled, k, failed, searched,
                   alignVars, biasVars>>

NextAssemble ==
    \/ AssembleSingle
    \/ AssembleFind
    \/ /\ Cardinality(taken) < MaxEdges
       /\ \E e \in Pairs(MaxDatasets) : AssembleEdge(e[1], e[2])
    \/ AssembleReturn

SpecAssemble == InitAssemble /\ [][NextAssemble]_vars

---------------------------------------------------------------------------
(* assemble() on inputs that reach the visit cap.  An edge is skipped only *)
(* when both endpoints have been seen more than VisitCap times, and every  *)
(* pair occurs once in the list: each endpoint then has VisitCap other     *)
(* partners, so the least input has VisitCap + 2 datasets, two of which    *)
(* (the hubs 0 and 1) are aligned with each other and with the rest.       *)

CapDatasets == VisitCap + 2

HubPairs(m) == { e \in Pairs(m) : e[1] <= 1 }

InitCap ==
    /\ pc = "assemble"
    /\ n \in 1..CapDatasets
    /\ datasets = [ i \in 0..(n - 1) |-> [rows |-> DsRows(i), ver |-> 0] ]
    /\ expr_given \in BOOLEAN
    /\ expr_datasets = [ i \in 0..(n - 1) |-> [rows |-> DsRows(i), ver |-> 0] ]
    /\ realign \in BOOLEAN
    /\ matches = <<>> /\ taken = {} /\ cur = NoEdge /\ call = NoCall
    /\ panoramas = <<>> /\ connected = {} /\ ds_assembled = <<>>
    /\ k = 0 /\ failed = FALSE /\ searched = FALSE
    /\ IdleAlign /\ IdleBias

NextCap ==
    \/ AssembleSingle
    \/ AssembleFind
    \/ \E e \in HubPairs(CapDatasets) : AssembleEdge(e[1], e[2])
    \/ AssembleReturn

SpecCap == InitCap /\ [][NextCap]_vars

---------------------------------------------------------------------------
(* assemble() on every table of mutual matches.  The coordinates are not   *)
(* part of the model, so find_alignments may return any table: a key for   *)
(* any set of pairs i < j (line 371 stores a pair only when both           *)
(* directions of the search found it) and for each key any set of at most  *)
(* MaxPairMatches pairs (row of i, row of j).  The alignment edges are     *)
(* keys of that table (lines 371-372 and 392).                             *)

\* the sets of mutual matches the pair e can have
MatchSets(e) ==
    { S \in SUBSET ((0..(DsRows(e[1]) - 1)) \X (0..(DsRows(e[2]) - 1))) :
        Cardinality(S) <= MaxPairMatches }

\* the dicts `matches` with the keys K
RECURSIVE TablesOver(_)
TablesOver(K) ==
    IF K = {} THEN { <<>> }
    ELSE LET e == CHOOSE x \in K : TRUE
         IN { t @@ (e :> S) : t \in TablesOver(K \ {e}), S \in MatchSets(e) }

\* the dicts `matches` that find_alignments can return for m datasets
MatchTables(m) == UNION { TablesOver(K) : K \in SUBSET Pairs(m) }

InitRemap ==
    /\ pc = "assemble"
    /\ n \in 1..MaxDatasets
    /\ datasets = [ i \in 0..(n - 1) |-> [rows |-> DsRows(i), ver |-> 0] ]
    /\ expr_given = FALSE
    /\ expr_datasets = [ i \in 0..(n - 1) |-> [rows |-> DsRows(i), ver |-> 0] ]
    /\ realign = FALSE
    /\ matches = <<>> /\ taken = {} /\ cur = NoEdge /\ call = NoCall
    /\ panoramas = <<>> /\ connected = {} /\ ds_assembled = <<>>
    /\ k = 0 /\ failed = FALSE /\ searched = FALSE
    /\ IdleAlign /\ IdleBias

\* lines 496-500, with any table of mutual matches
AssembleFindAny ==
    /\ pc = "assemble"
    /\ ~IsSingle(n)
    /\ searched' = TRUE
    /\ matches' \in MatchTables(n)
    /\ ds_assembled' = <<>>
    /\ panoramas' = <<>>
    /\ pc' = "loop"
    /\ UNCHANGED <<n, datasets, expr_given, expr_datasets, realign, taken, cur,
                   call, connected, k, failed, alignVars, biasVars>>

NextRemap ==
    \/ AssembleSingle
    \/ AssembleFindAny
    \/ /\ Cardinality(taken) < RemapEdges
       /\ \E e \in DOMAIN matches : AssembleEdge(e[1], e[2])
    \/ AssembleReturn

SpecRemap == InitRemap /\ [][NextRemap]_vars

---------------------------------------------------------------------------
(* nn / nn_approx, mnn, fill_table, find_alignments_table and              *)
(* find_alignments: lines 231-396.                                         *)

\* the subsets of 0..(r - 1) a query row can get: knn of them, or all r
KSubsets(r, kn) ==
    { S \in SUBSET (0..(r - 1)) : Cardinality(S) = IF kn < r THEN kn ELSE r }

\* lines 237-242 (259-264): every outcome of a search of q query rows in r
\* reference rows, as the set `match` of pairs (a, b_i)
NNResults(q, r, kn) ==
    { { <<a, b>> \in (0..(q - 1)) \X (0..(r - 1)) : b \in f[a] } :
        f \in [ 0..(q - 1) -> KSubsets(r, kn) ] }

\* line 281
Mutual(m1, m2) == m1 \cap { <<p[2], p[1]>> : p \in m2 }

\* the datasets of a block base_ds .. last, and their rows in np.concatenate
BlockRows(first, last) ==
    IF last < first THEN 0
    ELSE LET RECURSIVE Sum(_)
             Sum(x) == IF x > last THEN 0 ELSE datasets[x].rows + Sum(x + 1)
         IN Sum(first)

\* lines 322-329: itree_pos_base, the position at which dataset j starts
PosBase(first, j) == BlockRows(first, j - 1)

\* lines 333-335: the datasets whose interval contains position r
Owners(first, last, r) ==
    { j \in first..last : PosBase(first, j) <= r
                          /\ r < PosBase(first, j) + datasets[j].rows }

\* lines 332-342: table after storing `match` of dataset i against the block
FillTable(tab, i, match, first, last) ==
    LET owner(r) == CHOOSE j \in Owners(first, last, r) : TRUE
        keys == { <<i, owner(m[2])>> : m \in match }
        added(key) == { <<m[1], m[2] - PosBase(first, key[2])>> :
                          m \in { x \in match : owner(x[2]) = key[2] } }
    IN [ key \in DOMAIN tab \cup keys |->
           (IF key \in DOMAIN tab THEN tab[key] ELSE {})
           \cup (IF key \in keys THEN added(key) ELSE {}) ]

\* the pairs in the order of the loops of lines 363-366
RECURSIVE PairSeq(_, _, _)
PairSeq(m, i, j) ==
    IF i >= m THEN <<>>
    ELSE IF j >= m THEN PairSeq(m, i + 1, 0)
    ELSE IF i >= j THEN PairSeq(m, i, j + 1)
    ELSE <<<<i, j>>>> \o PairSeq(m, i, j + 1)

\* line 367
InBoth(tab, e) == e \in DOMAIN tab /\ <<e[2], e[1]>> \in DOMAIN tab

\* an intersection that does not reverse the (j, i) matches
CountMatchesUnreversed(tab, e) == tab[e] \cap tab[<<e[2], e[1]>>]

\* lines 369-371
CountMatches(tab, e) ==
    LET match_ij == tab[e]
        match_ji == { <<p[2], p[1]>> : p \in tab[<<e[2], e[1]>>] }
    IN match_ij \cap match_ji

\* fractions <<num, den>> with den > 0, compared as the floats they divide to
FracLess(x, y) == x[1] * y[2] < y[1] * x[2]

\* lines 372-377: max of the two matched shares
Score(m, e) ==
    LET si == <<Cardinality({ p[1] : p \in m }), datasets[e[1]].rows>>
        sj == <<Cardinality({ p[2] : p \in m }), datasets[e[2]].rows>>
    IN IF FracLess(si, sj) THEN sj ELSE si

\* lines 360-378: matches, as a dict
MatchesOf(tab, m) ==
    [ e \in { x \in Pairs(m) : InBoth(tab, x) } |-> CountMatches(tab, e) ]

\* lines 360-378: table1, as the dict's items in insertion order
Table1Of(tab, m) ==
    LET ps == SelectSeq(PairSeq(m, 0, 0), LAMBDA e : InBoth(tab, e))
    IN [ x \in 1..Len(ps) |->
           [key |-> ps[x], val |-> Score(CountMatches(tab, ps[x]), ps[x])] ]

\* sorted(items, key=operator.itemgetter(1)): stable, ascending (line 393)
RECURSIVE Sorted(_)
Sorted(items) ==
    IF items = <<>> THEN <<>>
    ELSE LET front == Sorted(SubSeq(items, 1, Len(items) - 1))
             x == items[Len(items)]
             \* x goes after every element that is not greater than it
             keep == SelectSeq(front, LAMBDA y : ~FracLess(x.val, y.val))
             rest == SelectSeq(front, LAMBDA y : FracLess(x.val, y.val))
         IN keep \o <<x>> \o rest

\* the ascending order kept as it is
ReversedNot(s) == s

\* reversed(...) (line 392)
Reversed(s) == [ x \in 1..Len(s) |-> s[Len(s) + 1 - x] ]

\* a filter that also keeps a score equal to alpha
AboveAlphaOrEqual(val, a) == ~FracLess(val, a)

\* line 394
AboveAlpha(val, a) == FracLess(a, val)

\* lines 392-394
Alignments(t1, a) ==
    LET kept == SelectSeq(Reversed(Sorted(t1)), LAMBDA it : AboveAlpha(it.val, a))
    IN [ x \in 1..Len(kept) |-> kept[x].key ]

\* the thresholds of the model's inputs: -1/2, 0, 1/2, 1
Alphas == { <<a, 2>> : a \in -1..2 }

InitAlign ==
    /\ pc = "entry"
    /\ n = AlignDatasets
    /\ datasets = [ i \in 0..(n - 1) |-> [rows |-> DsRows(i), ver |-> 0] ]
    /\ expr_given = FALSE /\ expr_datasets = <<>> /\ realign = FALSE
    /\ matches = <<>> /\ taken = {} /\ cur = NoEdge /\ call = NoCall
    /\ panoramas = <<>> /\ connected = {} /\ ds_assembled = <<>>
    /\ k = 0 /\ failed = FALSE /\ searched = FALSE
    /\ table = <<>> /\ table1 = <<>> /\ alignments = <<>> /\ alpha = <<0, 1>>
    /\ knn \in 1..MaxKnn
    /\ match1 = {} /\ match2 = {} /\ mutual = {}
    /\ IdleBias

\* mnn(ds1, ds2) on two of the datasets (lines 267-283)
Mnn(a, b) ==
    /\ pc = "entry"
    /\ a # b
    /\ \E m1 \in NNResults(datasets[a].rows, datasets[b].rows, knn),
          m2 \in NNResults(datasets[b].rows, datasets[a].rows, knn) :
          /\ match1' = m1
          /\ match2' = m2
          /\ mutual' = Mutual(m1, m2)
    /\ cur' = [i |-> a, j |-> b, branch |-> "mnn"]
    /\ pc' = "mnn_done"
    /\ UNCHANGED <<n, datasets, expr_given, expr_datasets, realign, matches,
                   taken, call, panoramas, connected, ds_assembled, k, failed,
                   searched, table, table1, alignments, alpha, knn, biasVars>>

\* find_alignments is entered: table = {} (line 350)
EnterFindAlignments ==
    /\ pc = "entry"
    /\ pc' = "fill_lower"
    /\ table' = <<>>
    /\ k' = 0
    /\ searched' = TRUE
    /\ UNCHANGED <<n, datasets, expr_given, expr_datasets, realign, matches,
                   taken, cur, call, panoramas, connected, ds_assembled, failed,
                   table1, alignments, alpha, knn, match1, match2, mutual,
                   biasVars>>

\* lines 352-354: dataset k against datasets[:k]
FillLower ==
    /\ pc = "fill_lower"
    /\ IF k > 0
         THEN \E match \in NNResults(datasets[k].rows, BlockRows(0, k - 1), knn) :
                 table' = FillTable(table, k, match, 0, k - 1)
         ELSE table' = table
    /\ pc' = "fill_upper"
    /\ UNCHANGED <<asmVars, table1, alignments, alpha, knn, match1, match2,
                   mutual, biasVars>>

\* lines 355-357: dataset k against datasets[k+1:]
FillUpper ==
    /\ pc = "fill_upper"
    /\ IF k + 1 < n
         THEN \E match \in NNResults(datasets[k].rows, BlockRows(k + 1, n - 1), knn) :
                 table' = FillTable(table, k, match, k + 1, n - 1)
         ELSE table' = table
    /\ k' = k + 1
    /\ pc' = IF k + 1 < n THEN "fill_lower" ELSE "count"
    /\ UNCHANGED <<n, datasets, expr_given, expr_datasets, realign, matches,
                   taken, cur, call, panoramas, connected, ds_assembled, failed,
                   searched, table1, alignments, alpha, knn, match1, match2,
                   mutual, biasVars>>

\* lines 360-382, and the filter and sort of find_alignments (lines 392-396)
FindAlignments ==
    /\ pc = "count"
    /\ matches' = MatchesOf(table, n)
    /\ table1' = Table1Of(table, n)
    /\ \E a \in Alphas :
          /\ alpha' = a
          /\ alignments' = Alignments(Table1Of(table, n), a)
    /\ pc' = "aligned"
    /\ UNCHANGED <<n, datasets, expr_given, expr_datasets, realign, taken, cur,
                   call, panoramas, connected, ds_assembled, k, failed, searched,
                   table, knn, match1, match2, mutual, biasVars>>

\* find_alignments is called again on the same datasets with a lower alpha;
\* the searches return what they returned before
LowerAlpha ==
    /\ pc = "aligned"
    /\ \E a \in Alphas :
          /\ FracLess(a, alpha)
          /\ alpha' = a
          /\ alignments' = Alignments(Table1Of(table, n), a)
    /\ UNCHANGED <<pc, asmVars, table, table1, knn, match1, match2, mutual,
                   biasVars>>

NextAlign ==
    \/ \E a \in 0..(AlignDatasets - 1), b \in 0..(AlignDatasets - 1) : Mnn(a, b)
    \/ EnterFindAlignments
    \/ FillLower
    \/ FillUpper
    \/ FindAlignments
    \/ LowerAlpha

SpecAlign == InitAlign /\ [][NextAlign]_vars

---------------------------------------------------------------------------
(* batch_bias(): lines 442-465.  Points are integers on a line and the     *)
(* arithmetic is exact.  rbf_kernel's exp(-gamma * d^2) is taken with      *)
(* gamma = ln 2 and scaled by 2^Underflow, which leaves every quotient of  *)
(* the function unchanged; below 2^-Underflow a weight underflows to 0.    *)

RECURSIVE Pow2(_)
Pow2(e) == IF e <= 0 THEN 1 ELSE 2 * Pow2(e - 1)

\* one entry of rbf_kernel(curr_ds, match_ds, gamma)
Kernel(x, y) ==
    LET d2 == (x - y) * (x - y)
    IN IF d2 > Underflow THEN 0 ELSE Pow2(Underflow - d2)

\* np.dot(weights, bias[lo..hi]) for the row of point x (rows 1-based)
RECURSIVE Dot(_, _, _, _, _)
Dot(x, ms, bs, lo, hi) ==
    IF hi < lo THEN 0
    ELSE Kernel(x, ms[hi]) * bs[hi] + Dot(x, ms, bs, lo, hi - 1)

\* np.sum(weights, axis=1) for the row of point x
RECURSIVE WeightSum(_, _, _, _)
WeightSum(x, ms, lo, hi) ==
    IF hi < lo THEN 0
    ELSE Kernel(x, ms[hi]) + WeightSum(x, ms, lo, hi - 1)

RECURSIVE Gcd(_, _)
Gcd(a, b) == IF b = 0 THEN a ELSE Gcd(b, a % b)

Abs(a) == IF a < 0 THEN -a ELSE a

\* num / den as a float would hold it: a reduced fraction, 0 / 0 is nan
Quot(num, den) ==
    IF den = 0 THEN <<0, 0>>
    ELSE LET g == Gcd(Abs(num), den) IN <<num \div g, den \div g>>

\* lines 444-448: the result with batch_size None
UnbatchedBias(cs, ms, bs) ==
    [ p \in DOMAIN cs |-> Quot(Dot(cs[p], ms, bs, 1, Len(ms)),
                               WeightSum(cs[p], ms, 1, Len(ms))) ]

\* lines 454-456: batch_idx = range(base, min(base + batch_size, shape[0])),
\* as the first and last row (0-based, last < first when empty)
BatchIdx(b, size, m) ==
    <<b, (IF b + size < m THEN b + size ELSE m) - 1>>

\* an advance that leaves one match between chunks
NextBaseSkip(b, size) == b + size + 1

\* line 461
NextBase(b, size) == b + size

BiasVals == {-1, 1}

SeqsUpTo(S, len) == UNION { [ 1..l -> S ] : l \in 0..len }

InitBias ==
    /\ pc = "bias_entry"
    /\ curr_ds = <<0, MaxCoord>>
    /\ match_ds \in SeqsUpTo(0..MaxCoord, MaxMatch)
    /\ bias \in [ DOMAIN match_ds -> BiasVals ]
    /\ batch_size \in {<<>>} \cup { <<b>> : b \in 1..MaxBatch }
    /\ base = 0 /\ avg_bias = <<>> /\ denom = <<>> /\ chunks = <<>>
    /\ IdleAsm /\ IdleAlign

\* lines 443-448
BiasUnbatched ==
    /\ pc = "bias_entry"
    /\ batch_size = <<>>
    /\ avg_bias' = UnbatchedBias(curr_ds, match_ds, bias)
    /\ pc' = "bias_done"
    /\ UNCHANGED <<curr_ds, match_ds, bias, batch_size, base, denom, chunks,
                   asmVars, alignVars>>

\* lines 450-452
BiasBatched ==
    /\ pc = "bias_entry"
    /\ batch_size # <<>>
    /\ base' = 0
    /\ avg_bias' = [ p \in DOMAIN curr_ds |-> <<0, 1>> ]
    /\ denom' = [ p \in DOMAIN curr_ds |-> 0 ]
    /\ pc' = "bias_loop"
    /\ UNCHANGED <<curr_ds, match_ds, bias, batch_size, chunks, asmVars, alignVars>>

\* one iteration of the while loop (lines 453-461)
BiasChunk ==
    /\ pc = "bias_loop"
    /\ base < Len(match_ds)
    /\ LET batch_idx == BatchIdx(base, batch_size[1], Len(match_ds))
           lo == batch_idx[1] + 1
           hi == batch_idx[2] + 1
       IN /\ avg_bias' = [ p \in DOMAIN curr_ds |->
                             <<avg_bias[p][1] + Dot(curr_ds[p], match_ds, bias, lo, hi), 1>> ]
          /\ denom' = [ p \in DOMAIN curr_ds |->
                          denom[p] + WeightSum(curr_ds[p], match_ds, lo, hi) ]
          /\ chunks' = Append(chunks, batch_idx)
    /\ base' = NextBase(base, batch_size[1])
    /\ UNCHANGED <<pc, curr_ds, match_ds, bias, batch_size, asmVars, alignVars>>

\* the loop is left and the sums are divided (lines 463-465)
BiasDivide ==
    /\ pc = "bias_loop"
    /\ ~(base < Len(match_ds))
    /\ avg_bias' = [ p \in DOMAIN curr_ds |-> Quot(avg_bias[p][1], denom[p]) ]
    /\ pc' = "bias_done"
    /\ UNCHANGED <<curr_ds, match_ds, bias, batch_size, base, denom, chunks,
                   asmVars, alignVars>>

NextBias ==
    \/ BiasUnbatched
    \/ BiasBatched
    \/ BiasChunk
    \/ BiasDivide

SpecBias == InitBias /\ [][NextBias]_vars /\ WF_vars(NextBias)

---------------------------------------------------------------------------
(* Properties of connect(), checked under SpecConnect.                     *)

\* the panoramas (positions) that hold dataset x
Holding(x) == { p \in DOMAIN panoramas : x \in Range(panoramas[p]) }

\* a list without repeated elements
NoRepeat(s) == \A a \in DOMAIN s, b \in DOMAIN s : s[a] = s[b] => a = b

\* the datasets joined to x by a path of the edges E
RECURSIVE Component(_, _)
Component(S, E) ==
    LET step == S \cup { e[2] : e \in { f \in E : f[1] \in S } }
                  \cup { e[1] : e \in { f \in E : f[2] \in S } }
    IN IF step = S THEN S ELSE Component(step, E)

(* C1: while connect() runs no dataset index is in more than one panorama  *)
(* and neither assert fails; when it returns, every index 0..n-1 is in     *)
(* exactly one panorama, once, and the panoramas hold nothing else.        *)
C1_PanoramaPartition ==
    /\ ~failed
    /\ pc # "error"
    /\ \A x \in 0..(n - 1) : Cardinality(Holding(x)) <= 1
    /\ \A p \in DOMAIN panoramas : NoRepeat(panoramas[p])
    /\ pc = "done" =>
         /\ \A x \in 0..(n - 1) : Cardinality(Holding(x)) = 1
         /\ \A p \in DOMAIN panoramas : Range(panoramas[p]) \subseteq 0..(n - 1)
         /\ \A p \in DOMAIN panoramas : panoramas[p] # <<>>

\* connect() has returned a merged panorama beside a singleton it added last
C1_Witness ==
    /\ pc = "done"
    /\ \E p \in DOMAIN panoramas : Len(panoramas[p]) >= 3
    /\ \E p \in DOMAIN panoramas :
          Len(panoramas[p]) = 1 /\ panoramas[p][1] \notin connected

(* C2: the panoramas connect() returns are the connected components of the *)
(* graph of the alignment edges: two datasets share a panorama exactly     *)
(* when a path of edges links them, and a dataset no edge touches is alone *)
(* in its panorama.                                                        *)
C2_ConnectedComponents ==
    pc = "done" =>
      /\ \A a \in 0..(n - 1), b \in 0..(n - 1) :
            (Holding(a) \cap Holding(b) # {}) <=> (b \in Component({a}, taken))
      /\ \A a \in 0..(n - 1) :
            (\A e \in taken : a # e[1] /\ a # e[2]) =>
               \E p \in DOMAIN panoramas : panoramas[p] = <<a>>

\* the panoramas [2, 3] and [0, 1] were merged by the last edge (0, 3):
\* appending alone gives another member order
C2_Witness ==
    /\ pc = "done"
    /\ taken = { <<0, 1>>, <<2, 3>>, <<0, 3>> }
    /\ panoramas = << <<0, 1, 2, 3>> >>

---------------------------------------------------------------------------
(* Properties of assemble(), checked under SpecAssemble and SpecCap.       *)

\* this step is a loop iteration, on the edge e
Iterates(e) == pc = "loop" /\ e \notin taken /\ taken' = taken \cup {e}

\* a visit counter, 0 while the dict has no entry
Visits(d, x) == IF x \in DOMAIN d THEN d[x] ELSE 0

\* both endpoints of e are over the cap once this iteration has counted them
CapReached(e) ==
    Visits(ds_assembled, e[1]) + 1 > VisitCap
    /\ Visits(ds_assembled, e[2]) + 1 > VisitCap

\* before the step both endpoints of e are members of one panorama
InSamePanorama(e) == Holding(e[1]) \cap Holding(e[2]) # {}

\* the members of the panorama that holds x
MembersWith(x) == UNION { Range(panoramas[p]) : p \in Holding(x) }

(* C3, as claimed: an edge whose endpoints are already in one panorama   *)
(* changes no coordinates, no full-feature matrix and no panorama.         *)
C3_SamePanoramaNoOp ==
    [][\A e \in Pairs(n) :
         Iterates(e) /\ InSamePanorama(e) =>
           /\ datasets' = datasets
           /\ expr_datasets' = expr_datasets
           /\ panoramas' = panoramas]_vars

(* C3, amended: an edge below the visit cap whose endpoints are already in *)
(* one panorama leaves the panorama list and every dataset outside that    *)
(* panorama as they are, and runs the merge branch: the panorama is both   *)
(* blocks of the transform() call and the coordinates of each of its       *)
(* members are overwritten once; the full-feature matrices of the members  *)
(* are overwritten too when realign is set and expr_datasets is given, and *)
(* no full-feature matrix is touched otherwise.                            *)
C3_SamePanoramaRecorrects ==
    [][\A e \in Pairs(n) :
         Iterates(e) /\ InSamePanorama(e) /\ ~CapReached(e) =>
           LET P == MembersWith(e[1])
               again == realign /\ expr_given
           IN /\ panoramas' = panoramas
              /\ Range(call'.moving) = P /\ call'.ref = call'.moving
              /\ \A x \in 0..(n - 1) :
                   /\ datasets'[x].rows = datasets[x].rows
                   /\ datasets'[x].ver =
                        IF x \in P THEN datasets[x].ver + 1 ELSE datasets[x].ver
                   /\ expr_datasets'[x].rows = expr_datasets[x].rows
                   /\ expr_datasets'[x].ver =
                        IF x \in P /\ again THEN expr_datasets[x].ver + 1
                        ELSE expr_datasets[x].ver]_vars

\* an edge inside a panorama of three has just been processed, with realign
C3_Witness ==
    /\ pc = "loop"
    /\ cur.branch = "same"
    /\ realign /\ expr_given
    /\ Len(call.moving) = 3
    /\ \E x \in 0..(n - 1) : datasets[x].ver = 0

(* C4: every edge taken from the list adds one to the visit counters of    *)
(* its two endpoints and to no other; the edge is skipped exactly when     *)
(* both counters then exceed 3: a skipped edge changes no coordinates, no  *)
(* full-feature matrix, no panorama and calls no transform, and an edge    *)
(* with an endpoint whose counter is at most 3 is processed (a coordinate  *)
(* matrix is overwritten).                                                 *)
C4_VisitCap ==
    [][\A e \in Pairs(n) :
         Iterates(e) =>
           /\ DOMAIN ds_assembled' = DOMAIN ds_assembled \cup {e[1], e[2]}
           /\ \A x \in DOMAIN ds_assembled' :
                ds_assembled'[x] = Visits(ds_assembled, x)
                                   + (IF x \in {e[1], e[2]} THEN 1 ELSE 0)
           /\ (ds_assembled'[e[1]] > 3 /\ ds_assembled'[e[2]] > 3) =>
                /\ datasets' = datasets
                /\ expr_datasets' = expr_datasets
                /\ panoramas' = panoramas
                /\ call' = call
                /\ cur'.branch = "skip"
           /\ (ds_assembled'[e[1]] <= 3 \/ ds_assembled'[e[2]] <= 3) =>
                /\ cur'.branch # "skip"
                /\ datasets' # datasets]_vars

\* an edge has just been skipped by the cap
C4_Witness ==
    /\ pc = "loop"
    /\ cur.branch = "skip"
    /\ ds_assembled[cur.i] > 3 /\ ds_assembled[cur.j] > 3

(* C5, as claimed: when assemble() has processed all edges every dataset   *)
(* index is in exactly one panorama of its panorama list.                  *)
C5_TerminalPartition ==
    pc = "done" => \A x \in 0..(n - 1) : Cardinality(Holding(x)) = 1

(* C5, amended: when assemble() has processed all edges every dataset      *)
(* index is in at most one panorama of its panorama list, once; it is in   *)
(* one exactly when it is an endpoint of some edge of the list (skipped by *)
(* the visit cap or not), and a dataset no edge touches is in none.        *)
C5_TerminalAtMostOne ==
    pc = "done" =>
      /\ ~failed
      /\ \A p \in DOMAIN panoramas : NoRepeat(panoramas[p])
      /\ \A x \in 0..(n - 1) :
           /\ Cardinality(Holding(x)) <= 1
           /\ Cardinality(Holding(x)) = 1
                <=> \E e \in taken : x = e[1] \/ x = e[2]

\* assemble() has returned with a panorama of three datasets and a dataset
\* that no edge touched, which is in no panorama
C5_Witness ==
    /\ pc = "done"
    /\ \E p \in DOMAIN panoramas : Len(panoramas[p]) >= 3
    /\ \E x \in 0..(n - 1) :
          Holding(x) = {} /\ \A e \in taken : x # e[1] /\ x # e[2]

(* C10: with exactly one dataset assemble() returns its input: it is never *)
(* in the loop or in an error, find_alignments is not called, transform is *)
(* not called and the coordinates and the full-feature matrix of the       *)
(* dataset are the input's.                                                *)
C10_SingleDataset ==
    n = 1 =>
      /\ pc \in {"assemble", "done"}
      /\ ~searched
      /\ ~failed
      /\ call = NoCall
      /\ datasets[0].ver = 0
      /\ expr_datasets[0].ver = 0
      /\ panoramas = <<>>

\* assemble() has returned on a single dataset
C10_Witness == n = 1 /\ pc = "done"

---------------------------------------------------------------------------
(* Properties of find_alignments and of the mutual match sets, checked     *)
(* under SpecAlign.                                                        *)

\* the score table1 holds for the pair e (e is a key of table1)
ScoreOf(e) == table1[CHOOSE y \in DOMAIN table1 : table1[y].key = e].val

Keys(t1) == { t1[y].key : y \in DOMAIN t1 }

\* fractions with positive denominators: x > y, x = y
FracAbove(x, y) == x[1] * y[2] > y[1] * x[2]
FracSame(x, y) == x[1] * y[2] = y[1] * x[2]

\* the pair e comes before the pair f in the loops of find_alignments_table
EnumBefore(e, f) == e[1] < f[1] \/ (e[1] = f[1] /\ e[2] < f[2])

\* the returned list holds the keys of table1 above alpha, once each
C6_Filter ==
    pc = "aligned" =>
      /\ NoRepeat(alignments)
      /\ \A x \in DOMAIN alignments :
           /\ alignments[x] \in Keys(table1)
           /\ alignments[x][1] < alignments[x][2]
           /\ FracAbove(ScoreOf(alignments[x]), alpha)
      /\ \A e \in Keys(table1) :
           FracAbove(ScoreOf(e), alpha) <=> e \in Range(alignments)

(* C6: the edge list find_alignments returns holds exactly the pairs       *)
(* (i, j), i < j, of the score table whose score is strictly greater than  *)
(* alpha, each once, and none with a score <= alpha; calling it again with *)
(* a lower alpha never returns fewer edges.                                *)
C6_Threshold ==
    /\ []C6_Filter
    /\ [][pc = "aligned" /\ pc' = "aligned" /\ FracAbove(alpha, alpha')
            => /\ Len(alignments') >= Len(alignments)
               /\ Range(alignments) \subseteq Range(alignments')]_vars

\* a list was returned that holds a pair of score 1/2 and leaves out a pair
\* whose score equals alpha
C6_Witness ==
    /\ pc = "aligned"
    /\ alpha = <<0, 2>>
    /\ Len(alignments) >= 2
    /\ \E e \in Keys(table1) : FracSame(ScoreOf(e), <<1, 2>>) /\ e \in Range(alignments)
    /\ \E e \in Keys(table1) : FracSame(ScoreOf(e), alpha) /\ e \notin Range(alignments)

(* C7, as claimed: the edge list is sorted by score, descending, and pairs *)
(* of equal score are in the order the pair enumeration produced them     *)
(* (i ascending, then j ascending).                                        *)
C7_StableTies ==
    pc = "aligned" =>
      \A x \in DOMAIN alignments, y \in DOMAIN alignments :
        x < y =>
          /\ ~FracAbove(ScoreOf(alignments[y]), ScoreOf(alignments[x]))
          /\ FracSame(ScoreOf(alignments[x]), ScoreOf(alignments[y]))
               => EnumBefore(alignments[x], alignments[y])

(* C7, amended: the edge list is sorted by score, descending, and pairs of *)
(* equal score are in the reverse of the order the pair enumeration        *)
(* produced them (the pair enumerated later comes first): the list is the  *)
(* reversal of a stable ascending sort.                                    *)
C7_ReversedTies ==
    pc = "aligned" =>
      \A x \in DOMAIN alignments, y \in DOMAIN alignments :
        x < y =>
          /\ ~FracAbove(ScoreOf(alignments[y]), ScoreOf(alignments[x]))
          /\ FracSame(ScoreOf(alignments[x]), ScoreOf(alignments[y]))
               => EnumBefore(alignments[y], alignments[x])

\* a list of three edges, two of them with the same score and one above
C7_Witness ==
    /\ pc = "aligned"
    /\ Len(alignments) = 3
    /\ FracAbove(ScoreOf(alignments[1]), ScoreOf(alignments[2]))
    /\ FracSame(ScoreOf(alignments[2]), ScoreOf(alignments[3]))

(* C8: mnn returns a pair (a, b) exactly when (a, b) is in the matches of  *)
(* the first direction and (b, a) in those of the second; matches holds a  *)
(* key (i, j) exactly when i < j and table holds (i, j) and (j, i), and    *)
(* then a pair (a, b) is in matches[(i, j)] exactly when (a, b) is in      *)
(* table[(i, j)] and (b, a) in table[(j, i)].                              *)
C8_MutualIntersection ==
    /\ pc = "mnn_done" =>
         /\ \A p \in mutual : p \in match1 /\ <<p[2], p[1]>> \in match2
         /\ \A p \in match1 : <<p[2], p[1]>> \in match2 => p \in mutual
    /\ pc = "aligned" =>
         /\ DOMAIN matches \subseteq Pairs(n)
         /\ \A e \in Pairs(n) :
              LET r == <<e[2], e[1]>>
              IN /\ e \in DOMAIN matches <=> (e \in DOMAIN table /\ r \in DOMAIN table)
                 /\ e \in DOMAIN matches =>
                      /\ \A p \in matches[e] :
                           p \in table[e] /\ <<p[2], p[1]>> \in table[r]
                      /\ \A p \in table[e] :
                           <<p[2], p[1]>> \in table[r] => p \in matches[e]

\* a mutual set that keeps a pair of different rows and drops another pair,
\* beside a pair of datasets with one direction missing from table
C8_Witness ==
    /\ pc = "aligned"
    /\ \E e \in DOMAIN matches :
          /\ \E p \in matches[e] : p[1] # p[2]
          /\ matches[e] # table[e]
    /\ \E e \in Pairs(n) : e \notin DOMAIN matches /\ e \in DOMAIN table

---------------------------------------------------------------------------
(* Properties of batch_bias(), checked under SpecBias.                     *)

\* the chunks used are consecutive, not empty, at most batch_size rows each,
\* and every matched row 0..m-1 is in exactly one of them
ChunksPartition ==
    /\ \A r \in 0..(Len(match_ds) - 1) :
         Cardinality({ q \in DOMAIN chunks : chunks[q][1] <= r /\ r <= chunks[q][2] }) = 1
    /\ \A q \in DOMAIN chunks :
         /\ chunks[q][1] <= chunks[q][2]
         /\ chunks[q][2] - chunks[q][1] < batch_size[1]
         /\ chunks[q][1] = (IF q = 1 THEN 0 ELSE chunks[q - 1][2] + 1)
         /\ chunks[q][2] < Len(match_ds)

\* the loop has been left: the sums are those over all matched points
SumsComplete ==
    pc = "bias_loop" /\ ~(base < Len(match_ds)) =>
      /\ ChunksPartition
      /\ \A p \in DOMAIN curr_ds :
           /\ avg_bias[p] = <<Dot(curr_ds[p], match_ds, bias, 1, Len(match_ds)), 1>>
           /\ denom[p] = WeightSum(curr_ds[p], match_ds, 1, Len(match_ds))

\* the batched call returns what the call with batch_size None returns
SameResult ==
    pc = "bias_done" /\ batch_size # <<>> =>
      avg_bias = UnbatchedBias(curr_ds, match_ds, bias)

(* C9: for a batch_size >= 1 batch_bias cuts the matched points into       *)
(* consecutive chunks with every matched point in exactly one chunk, the   *)
(* loop ends, the numerator and the denominator summed over the chunks are *)
(* those of the call with batch_size None, and so is the returned bias of  *)
(* every point of the moving block (in exact arithmetic).                  *)
C9_BatchedEqualsUnbatched ==
    /\ []SumsComplete
    /\ []SameResult
    /\ <>(pc = "bias_done")

\* a batched call over three matched points in two chunks has returned a
\* bias that is a proper fraction for the first point and nan for the second
C9_Witness ==
    /\ pc = "bias_done"
    /\ batch_size = <<2>>
    /\ Len(chunks) = 2
    /\ avg_bias[1][2] > 1
    /\ avg_bias[2] = <<0, 0>>

---------------------------------------------------------------------------
(* The seeding of a new panorama, checked under SpecAssemble.              *)

\* before the step neither endpoint of e is a member of any panorama
BothUnassigned(e) == Holding(e[1]) = {} /\ Holding(e[2]) = {}

\* the endpoint of e with more points, the first one when the sizes are equal
LargerOf(e) == IF datasets[e[1]].rows >= datasets[e[2]].rows THEN e[1] ELSE e[2]

\* the other endpoint of e
SmallerOf(e) == IF LargerOf(e) = e[1] THEN e[2] ELSE e[1]

(* C11: an edge with neither endpoint in a panorama seeds a new panorama   *)
(* with the endpoint that has more points (the first endpoint when the     *)
(* sizes are equal): the seed is the reference of the transform() call and *)
(* its coordinates are left as they are, the other endpoint is the moving  *)
(* block and its coordinates are overwritten, and the new panorama, added  *)
(* at the end of the list, holds exactly the seed followed by the other.   *)
C11_SeedLarger ==
    [][\A e \in Pairs(n) :
         Iterates(e) /\ BothUnassigned(e) =>
           LET seed == LargerOf(e)
               other == SmallerOf(e)
           IN /\ cur'.branch = "seed"
              /\ call'.ref = <<seed>> /\ call'.moving = <<other>>
              /\ datasets'[seed] = datasets[seed]
              /\ datasets'[other].ver = datasets[other].ver + 1
              /\ datasets'[other].rows = datasets[other].rows
              /\ panoramas' = Append(panoramas, <<seed, other>>)]_vars

\* the edge (1, 2) has just seeded a panorama with the larger dataset 2, and
\* the smaller dataset 1 was corrected
C11_Witness ==
    /\ pc = "loop"
    /\ cur = [i |-> 2, j |-> 1, branch |-> "seed"]
    /\ datasets[2].rows > datasets[1].rows
    /\ datasets[2].ver = 0 /\ datasets[1].ver = 1
    /\ panoramas[Len(panoramas)] = <<2, 1>>

---------------------------------------------------------------------------
(* The match lists handed to transform(), checked under SpecRemap.         *)

\* the mutual matches of datasets x and y as pairs (row of x, row of y)
PairMatches(x, y) ==
    IF <<x, y>> \in DOMAIN matches THEN matches[<<x, y>>]
    ELSE IF <<y, x>> \in DOMAIN matches
      THEN { <<m[2], m[1]>> : m \in matches[<<y, x>>] }
    ELSE {}

\* the position of x in the list members
PosOf(members, x) == CHOOSE q \in DOMAIN members : members[q] = x

\* the rows of the first c members of a list
RECURSIVE RowsOfFirst(_, _)
RowsOfFirst(members, c) ==
    IF c = 0 THEN 0 ELSE RowsOfFirst(members, c - 1) + DsRows(members[c])

\* the first row of member x in the concatenation of the members
OffsetOf(members, x) == RowsOfFirst(members, PosOf(members, x) - 1)

\* the members of the panorama that holds x, in member order
PanoramaWith(x) == panoramas[CHOOSE p \in Holding(x) : TRUE]

\* before the step the endpoints of e are members of two different panoramas
InTwoPanoramas(e) ==
    /\ Holding(e[1]) # {} /\ Holding(e[2]) # {}
    /\ Holding(e[1]) \cap Holding(e[2]) = {}

(* C12, as claimed: when an edge (i, j) joins two panoramas the match list *)
(* of the transform() call holds every mutual match of i with every member *)
(* of j's panorama and every mutual match of j with every member of i's    *)
(* panorama, each at the offsets of the two members that own its points.   *)
C12_AllMemberMatches ==
    [][\A e \in Pairs(n) :
         Iterates(e) /\ InTwoPanoramas(e) /\ ~CapReached(e) =>
           LET i == e[1]
               j == e[2]
               mov == PanoramaWith(i)
               ref == PanoramaWith(j)
           IN /\ \A q \in Range(ref) : \A m \in PairMatches(i, q) :
                     BagIn(<<m[1] + OffsetOf(mov, i), m[2] + OffsetOf(ref, q)>>,
                           call'.match)
              /\ \A p \in Range(mov) : \A m \in PairMatches(p, j) :
                     BagIn(<<m[1] + OffsetOf(mov, p), m[2] + OffsetOf(ref, j)>>,
                           call'.match)]_vars

(* C12, amended: when an edge (i, j) joins two panoramas the blocks of the *)
(* transform() call are i's panorama (moving) and j's panorama             *)
(* (reference), and the match list holds the mutual matches of the pair    *)
(* (i, j) only, each of them twice, as (a + offset of i in its panorama,   *)
(* b + offset of j in its panorama); the matches of i or j with the other  *)
(* members of the two panoramas are not in the list.                       *)
C12_EndpointMatchesTwice ==
    [][\A e \in Pairs(n) :
         Iterates(e) /\ InTwoPanoramas(e) /\ ~CapReached(e) =>
           LET i == e[1]
               j == e[2]
               mov == PanoramaWith(i)
               ref == PanoramaWith(j)
               direct == { <<m[1] + OffsetOf(mov, i), m[2] + OffsetOf(ref, j)>> :
                             m \in PairMatches(i, j) }
           IN /\ cur'.branch = "merge"
              /\ call'.moving = mov /\ call'.ref = ref
              /\ call'.match = SetToBag(direct) (+) SetToBag(direct)]_vars

\* two panoramas have just been merged on an edge (i, j) that has a mutual
\* match, at offsets that are not both zero, while i also has a mutual match
\* with another member of j's panorama, which the match list leaves out
C12_Witness ==
    /\ pc = "loop"
    /\ cur.branch = "merge"
    /\ PairMatches(cur.i, cur.j) # {}
    /\ BagCardinality(call.match) = 2
    /\ OffsetOf(call.moving, cur.i) + OffsetOf(call.ref, cur.j) > 0
    /\ \E q \in Range(call.ref) \ {cur.j} : PairMatches(cur.i, q) # {}

\* before the step exactly one endpoint of e is a member of a panorama
OneUnassigned(e) == (Holding(e[1]) = {}) # (Holding(e[2]) = {})

\* the rows of all the members of a list
BlockSize(members) == RowsOfFirst(members, Len(members))

\* the member that owns row r of the concatenation of the members
OwnerOf(members, r) ==
    CHOOSE p \in Range(members) :
      OffsetOf(members, p) <= r /\ r < OffsetOf(members, p) + DsRows(p)

(* C13: when exactly one endpoint of an edge is unassigned the moving      *)
(* block of the transform() call is the unassigned dataset x, the          *)
(* reference block is the panorama of the other endpoint, and the match    *)
(* list holds, once each, the pairs (a, b + offset(p)) for every member p  *)
(* of that panorama and every mutual match of row a of x with row b of p,  *)
(* where offset(p) is the number of rows of the members before p; every    *)
(* moving index is a row of x, and every reference index is a row of the   *)
(* reference block that belongs to a member p and is row b of p for a      *)
(* mutual match (a, b) of x with p.                                        *)
C13_OffsetsOneUnassigned ==
    [][\A e \in Pairs(n) :
         Iterates(e) /\ OneUnassigned(e) /\ ~CapReached(e) =>
           LET x == IF Holding(e[1]) = {} THEN e[1] ELSE e[2]
               y == IF x = e[1] THEN e[2] ELSE e[1]
               ref == PanoramaWith(y)
               expected == UNION { { <<m[1], m[2] + OffsetOf(ref, p)>> :
                                       m \in PairMatches(x, p) } : p \in Range(ref) }
           IN /\ call'.moving = <<x>> /\ call'.ref = ref
              /\ call'.match = SetToBag(expected)
              /\ \A t \in BagToSet(call'.match) :
                   /\ t[1] \in 0..(DsRows(x) - 1)
                   /\ t[2] \in 0..(BlockSize(ref) - 1)
                   /\ <<t[1], t[2] - OffsetOf(ref, OwnerOf(ref, t[2]))>>
                        \in PairMatches(x, OwnerOf(ref, t[2]))]_vars

\* a dataset x has just been mapped to a panorama of two or more members:
\* the list holds a match of row a of x with row b of a member p < x that is
\* not the first member, with a # b
C13_Witness ==
    /\ pc = "loop"
    /\ cur.branch \in {"map_i", "map_j"}
    /\ Len(call.ref) >= 2
    /\ \E p \in Range(call.ref) :
         /\ p < call.moving[1]
         /\ OffsetOf(call.ref, p) > 0
         /\ \E m \in PairMatches(call.moving[1], p) :
              /\ m[1] # m[2]
              /\ BagIn(<<m[1], m[2] + OffsetOf(call.ref, p)>>, call.match)

---------------------------------------------------------------------------
(* The frame of an assemble() iteration, checked under SpecAssemble.       *)

\* the datasets on the moving side of the edge e: the smaller endpoint when
\* both are unassigned, the unassigned endpoint when one is, and the members
\* of the panorama of the first endpoint when two panoramas are joined
MovingSide(e) ==
    IF BothUnassigned(e) THEN {SmallerOf(e)}
    ELSE IF Holding(e[1]) = {} THEN {e[1]}
    ELSE IF Holding(e[2]) = {} THEN {e[2]}
    ELSE MembersWith(e[1])

(* C14: an edge whose endpoints are not in the same panorama overwrites    *)
(* the coordinates of the moving side only: the datasets of the reference  *)
(* panorama and the datasets in neither endpoint's group keep their        *)
(* coordinates, no dataset changes its number of rows, and when realign is *)
(* off a merge of two panoramas leaves every full-feature matrix as it is. *)
C14_WritesMovingSideOnly ==
    [][\A e \in Pairs(n) :
         Iterates(e) /\ ~InSamePanorama(e) =>
           /\ \A x \in 0..(n - 1) :
                /\ x \notin MovingSide(e) => datasets'[x] = datasets[x]
                /\ datasets'[x].rows = datasets[x].rows
                /\ x \in MovingSide(e) /\ ~CapReached(e) =>
                     datasets'[x].ver = datasets[x].ver + 1
           /\ InTwoPanoramas(e) /\ ~realign => expr_datasets' = expr_datasets]_vars

\* two panoramas have just been merged with realign off and full-feature
\* matrices given: a member of the moving panorama was overwritten again and
\* a member of the reference panorama still has the coordinates it had when
\* its panorama was formed
C14_Witness ==
    /\ pc = "loop"
    /\ cur.branch = "merge"
    /\ ~realign /\ expr_given
    /\ \E x \in Range(call.moving) : datasets[x].ver = 2
    /\ \E y \in Range(call.ref) : datasets[y].ver = 0
    /\ \E y \in Range(call.ref) : datasets[y].ver = 1 /\ expr_datasets[y].ver = 1

=============================================================================
